---- MODULE Spec2Model ----
(***************************************************************************)
(* J2P: the JSON-Schema to proto3 translator of internal/jsparser.go.      *)
(*                                                                         *)
(* Go strings are modelled as sequences of one-character strings, so that  *)
(* the case conversions, the sanitizer and strings.Split are computed      *)
(* character by character as the code computes them.  A Go pointer or a    *)
(* nil-able slice is a sequence of length 0 (nil) or 1 (the value).        *)
(***************************************************************************)
EXTENDS Integers, Sequences, FiniteSets, TLC

VARIABLES
  schema,      \* Schema.Definitions as decoded by New
  pc,          \* position of Parse
  run,         \* which invocation of main this is
  values,      \* Parse: the fragments collected so far
  buffer,      \* Schema.ToProtobuf: the blocks written so far
  defKeys,     \* Schema.ToProtobuf: the sorted keys still to emit
  pushBacks,   \* DefaultJsonSchemaParser.pushBacks
  typeNames,   \* DefaultJsonSchemaParser.typeNames
  keys,        \* Parse: keys dispatched in the running pass
  snapshot,    \* Parse: the keys the map held when the running range began
  protoFile,   \* test.proto as written by the previous invocation
  fpc,         \* position of the single-call harness
  fName,       \* a property name handed to a field formatter
  fNode,       \* a property node handed to GetType / ToField
  fOut         \* what the call returned

vars == <<schema, pc, run, values, buffer, defKeys, pushBacks, typeNames,
          keys, snapshot, protoFile, fpc, fName, fNode, fOut>>

parseVars == <<schema, pc, run, values, buffer, defKeys, pushBacks, typeNames,
               keys, snapshot, protoFile>>

callVars == <<fpc, fName, fNode, fOut>>

(***************************************************************************)
(* Bounds of the model.                                                    *)
(***************************************************************************)
MaxNameLen == 3
MaxRuns == 2
MaxDepth == 2
MaxRefs == 2

(***************************************************************************)
(* Characters and strings.                                                 *)
(***************************************************************************)
Range(s) == {s[i] : i \in DOMAIN s}

\* F applied to the value of x: x is evaluated once, before F is, as a Go
\* call evaluates its operand once however often the result is read.
Then(x, F(_)) == CHOOSE y \in {F(v) : v \in {x}} : TRUE

Uppers == <<"A", "B", "C", "D", "E", "F", "G", "H", "I", "J", "K", "L", "M",
            "N", "O", "P", "Q", "R", "S", "T", "U", "V", "W", "X", "Y", "Z">>
Lowers == <<"a", "b", "c", "d", "e", "f", "g", "h", "i", "j", "k", "l", "m",
            "n", "o", "p", "q", "r", "s", "t", "u", "v", "w", "x", "y", "z">>
Digits == <<"0", "1", "2", "3", "4", "5", "6", "7", "8", "9">>

IsUpper(c) == c \in Range(Uppers)
IsNumber(c) == c \in Range(Digits)

ToLowerCh(c) ==
  IF IsUpper(c) THEN Lowers[CHOOSE i \in DOMAIN Uppers : Uppers[i] = c] ELSE c

ToUpperCh(c) ==
  IF c \in Range(Lowers) THEN Uppers[CHOOSE i \in DOMAIN Lowers : Lowers[i] = c]
  ELSE c

ToLower(s) == [i \in DOMAIN s |-> ToLowerCh(s[i])]
ToUpper(s) == [i \in DOMAIN s |-> ToUpperCh(s[i])]

HasPrefix(s, p) == Len(s) >= Len(p) /\ SubSeq(s, 1, Len(p)) = p

RECURSIVE SplitFrom(_, _, _, _)
SplitFrom(s, i, cur, acc) ==
  IF i > Len(s) THEN Append(acc, cur)
  ELSE IF s[i] = "/" THEN SplitFrom(s, i + 1, <<>>, Append(acc, cur))
  ELSE SplitFrom(s, i + 1, Append(cur, s[i]), acc)

Split(s) == SplitFrom(s, 1, <<>>, <<>>)

(***************************************************************************)
(* The Types constants.                                                    *)
(***************************************************************************)
NONE == <<>>
TypesSTRING == <<"s", "t", "r", "i", "n", "g">>
NUMBER == <<"n", "u", "m", "b", "e", "r">>
INTEGER == <<"i", "n", "t", "e", "g", "e", "r">>
OBJECT == <<"o", "b", "j", "e", "c", "t">>
ARRAY == <<"a", "r", "r", "a", "y">>
TypesBOOLEAN == <<"b", "o", "o", "l", "e", "a", "n">>
NULL == <<"n", "u", "l", "l">>

(***************************************************************************)
(* The name normalizer.                                                    *)
(***************************************************************************)
fixString(str) ==
  [i \in DOMAIN str |->
     IF str[i] \in {"#", " ", "-", "/", "."} THEN "_" ELSE str[i]]

toCamelCase(str) ==
  LET fixedStr == fixString(str)
  IN  IF Len(fixedStr) = 0 THEN <<>>
      ELSE <<ToLowerCh(fixedStr[1])>> \o Tail(fixedStr)

toPascalCase(str) ==
  IF "." \in Range(str) THEN str
  ELSE LET fixedStr == fixString(str)
       IN  IF Len(fixedStr) = 0 THEN <<>>
           ELSE <<ToUpperCh(fixedStr[1])>> \o Tail(fixedStr)

\* A digit marks the conversion even at position 0.
SnakeStepDigitAlwaysConverts(st, index, value) ==
  IF value = "_" THEN
    [st EXCEPT !.isConverted = TRUE, !.isPrevUnderline = TRUE,
               !.output = @ \o <<ToLowerCh(value)>>]
  ELSE IF IsUpper(value) THEN
    [st EXCEPT !.output = @ \o (IF index # 0 THEN <<"_">> ELSE <<>>)
                            \o <<ToLowerCh(value)>>,
               !.isConverted = @ \/ index # 0]
  ELSE IF IsNumber(value) THEN
    IF ~st.isPrevNum THEN
      [st EXCEPT !.output = @ \o (IF index # 0 THEN <<"_">> ELSE <<>>)
                              \o <<ToLowerCh(value)>>,
                 !.isConverted = TRUE,
                 !.isPrevNum = TRUE]
    ELSE [st EXCEPT !.output = @ \o <<ToLowerCh(value)>>]
  ELSE IF st.isPrevNum THEN
    [st EXCEPT !.output = @ \o <<"_", ToLowerCh(value)>>,
               !.isConverted = TRUE, !.isPrevNum = FALSE]
  ELSE [st EXCEPT !.isPrevUnderline = FALSE, !.output = @ \o <<value>>]

\* One turn of the loop of toSnakeCase; index is the 0-based byte position.
SnakeStep(st, index, value) ==
  IF value = "_" THEN
    [st EXCEPT !.isConverted = TRUE, !.isPrevUnderline = TRUE,
               !.output = @ \o <<ToLowerCh(value)>>]
  ELSE IF IsUpper(value) THEN
    [st EXCEPT !.output = @ \o (IF index # 0 THEN <<"_">> ELSE <<>>)
                            \o <<ToLowerCh(value)>>,
               !.isConverted = @ \/ index # 0]
  ELSE IF IsNumber(value) THEN
    IF ~st.isPrevNum THEN
      [st EXCEPT !.output = @ \o (IF index # 0 THEN <<"_">> ELSE <<>>)
                              \o <<ToLowerCh(value)>>,
                 !.isConverted = @ \/ index # 0,
                 !.isPrevNum = TRUE]
    ELSE [st EXCEPT !.output = @ \o <<ToLowerCh(value)>>]
  ELSE IF st.isPrevNum THEN
    [st EXCEPT !.output = @ \o <<"_", ToLowerCh(value)>>,
               !.isConverted = TRUE, !.isPrevNum = FALSE]
  ELSE [st EXCEPT !.isPrevUnderline = FALSE, !.output = @ \o <<value>>]

RECURSIVE SnakeLoop(_, _, _)
SnakeLoop(str, i, st) ==
  IF i > Len(str) THEN st
  ELSE Then(SnakeStep(st, i - 1, str[i]),
            LAMBDA next : SnakeLoop(str, i + 1, next))

\* Returns the converted string and the isConverted flag.  The early return
\* for the empty string yields what the loop yields over no bytes.
SnakeResult(st) == [str |-> st.output, ok |-> st.isConverted]

toSnakeCase(str) ==
  SnakeResult(SnakeLoop(fixString(str), 1,
                        [output |-> <<>>, isConverted |-> FALSE,
                         isPrevNum |-> FALSE, isPrevUnderline |-> FALSE]))

(***************************************************************************)
(* Output text.  A field line "\t<label> <type> <name> = <num>             *)
(* [json_name="..."];" is kept as a record of its parts; json is <<>> when *)
(* the option is absent.                                                   *)
(***************************************************************************)
\* The two fmt.Sprintf of a formatter; snake is what toSnakeCase returned.
Sprintf(typeText, camelName, index, snake) ==
  [k |-> "field", label |-> <<>>, type |-> typeText, name |-> camelName,
   num |-> index, json |-> IF snake.ok THEN <<snake.str>> ELSE <<>>]

FieldLine(typeText, propertyName, index) ==
  Sprintf(typeText, toCamelCase(propertyName), index,
          toSnakeCase(propertyName))

\* "\t<label> " put before a text whose leading tab is trimmed.
Prefixed(label, line) ==
  IF line.k = "field" THEN [line EXCEPT !.label = <<label>> \o @]
  ELSE [k |-> "prefixed", label |-> label, inner |-> line]

PrimitiveTypeName(typeName) ==
  IF typeName = INTEGER THEN <<"i", "n", "t", "3", "2">>
  ELSE IF typeName = NUMBER THEN <<"d", "o", "u", "b", "l", "e">>
  ELSE IF typeName = TypesBOOLEAN THEN <<"b", "o", "o", "l">>
  ELSE IF typeName = NULL THEN
    <<"o", "p", "t", "i", "o", "n", "a", "l", " ", "g", "o", "o", "g", "l",
      "e", ".", "p", "r", "o", "t", "o", "b", "u", "f", ".", "A", "n", "y">>
  ELSE IF typeName = <<"S", "t", "r", "i", "n", "g">> THEN TypesSTRING
  ELSE typeName

\* Each formatter returns its text and the value it leaves in *index.
ToPrimitiveProperty(propertyName, typeName, index) ==
  [text |-> FieldLine(PrimitiveTypeName(typeName), propertyName, index),
   index |-> index + 1]

ToPrimitiveArrayProperty(propertyName, typeName, index) ==
  [text |-> Prefixed("repeated",
                     ToPrimitiveProperty(propertyName, typeName, index).text),
   index |-> index + 1]

ToRefArrayProperty(propertyName, typeName, index) ==
  [text |-> Prefixed("repeated",
                     FieldLine(toPascalCase(typeName), propertyName, index)),
   index |-> index + 1]

\* The counter is left as it was.
ToRefPropertyKeepsIndex(propertyName, typeName, index) ==
  [text |-> FieldLine(toPascalCase(typeName), propertyName, index),
   index |-> index]

ToRefProperty(propertyName, typeName, index) ==
  [text |-> FieldLine(toPascalCase(typeName), propertyName, index),
   index |-> index + 1]

(***************************************************************************)
(* The schema model.  A Properties node keeps the fields the translation   *)
(* reads; Properties (the map) is a function from names to nodes, and the  *)
(* nil map and the empty map are both <<>>.                                *)
(***************************************************************************)
ZeroProperties ==
  [Type |-> NONE, Items |-> <<>>, Ref |-> <<>>, AnyOf |-> <<>>,
   Enum |-> <<>>, Properties |-> <<>>]

\* m[k] of a Go map: the zero value when the key is missing.
Lookup(m, k) == IF k \in DOMAIN m THEN m[k] ELSE ZeroProperties

ENUM_TYPE == "ENUM_TYPE"
UNION_TYPE == "UNION_TYPE"
COMPLEX_ARRAY_TYPE == "COMPLEX_ARRAY_TYPE"
REF_ARRAY_TYPE == "REF_ARRAY_TYPE"
PRIMITIVE_ARRAY_TYPE == "PRIMITIVE_ARRAY_TYPE"
UNKOWN_ARRAY_TYPE == "UNKOWN_ARRAY_TYPE"
NESTED_OBJECT_TYPE == "NESTED_OBJECT_TYPE"
REF_TYPE == "REF_TYPE"
PRIMITIVE_TYPE == "PRIMITIVE_TYPE"

PropertyType ==
  {ENUM_TYPE, UNION_TYPE, COMPLEX_ARRAY_TYPE, REF_ARRAY_TYPE,
   PRIMITIVE_ARRAY_TYPE, UNKOWN_ARRAY_TYPE, NESTED_OBJECT_TYPE, REF_TYPE,
   PRIMITIVE_TYPE}

\* What a call yields when it dereferences a nil pointer or calls panic().
PANIC == "panic"

\* properties.Items.Type with Items nil is a nil pointer dereference.
GetType(properties) ==
  IF properties.Enum # <<>> THEN ENUM_TYPE
  ELSE IF properties.AnyOf # <<>> THEN UNION_TYPE
  ELSE IF properties.Type = ARRAY THEN
    IF properties.Items = <<>> THEN PANIC
    ELSE LET items == properties.Items[1]
         IN  IF items.Type = NONE /\ items.Ref = <<>> THEN UNKOWN_ARRAY_TYPE
             ELSE IF items.Ref # <<>> THEN REF_ARRAY_TYPE
             ELSE IF items.Type = OBJECT THEN COMPLEX_ARRAY_TYPE
             ELSE PRIMITIVE_ARRAY_TYPE
  ELSE IF properties.Type = OBJECT THEN NESTED_OBJECT_TYPE
  ELSE IF properties.Ref # <<>> THEN REF_TYPE
  ELSE PRIMITIVE_TYPE

\* The loop of GetRef from its 0-based position i on.
RECURSIVE RefWalk(_, _, _)
RefWalk(path, i, ref) ==
  IF i >= Len(path) THEN ref
  ELSE IF i = 1 /\ path[i + 1] = <<"d", "e", "f", "i", "n", "i", "t", "i",
                                    "o", "n", "s">>
    THEN RefWalk(path, i + 1, ref)
  ELSE RefWalk(path, i + 1, Lookup(ref, path[i + 1]).Properties)

\* GetRef once strings.Split returned path.
GetRefFrom(path, root) ==
  IF Len(path) > 1 /\ path[2] = <<"$", "d", "e", "f", "s">>
    THEN [panic |-> TRUE, key |-> <<>>, ref |-> <<>>]
  ELSE [panic |-> FALSE, key |-> path[Len(path)],
        ref |-> RefWalk(path, 1, root)]

GetRef(properties, root) ==
  IF HasPrefix(ToLower(properties.Ref[1]), <<"h", "t", "t", "p">>)
    THEN [panic |-> TRUE, key |-> <<>>, ref |-> <<>>]
  ELSE Then(Split(properties.Ref[1]), LAMBDA path : GetRefFrom(path, root))

GetRefType(properties) ==
  IF properties.Ref = <<>> THEN <<>>
  ELSE LET path == Split(properties.Ref[1]) IN path[Len(path)]

(***************************************************************************)
(* The work queue and the dedup list of the parser.                        *)
(***************************************************************************)
MapWork(m) == [tag |-> "map[string]Properties", val |-> m]
NodeWork(p) == [tag |-> "Properties", val |-> p]
EnumWork(e) == [tag |-> "[]string", val |-> e]

\* output.pushBacks[name] = value
nestedObjectHander(pb, name, value) ==
  [k \in DOMAIN pb \cup {name} |-> IF k = name THEN value ELSE pb[k]]

\* The name is reported new and is not recorded.
duplicateCheckNeverRecords(names, typeName) ==
  [dup |-> FALSE, names |-> names]

\* Returns whether typeName was recorded already, and the list afterwards.
duplicateCheck(names, typeName) ==
  IF typeName \in Range(names) THEN [dup |-> TRUE, names |-> names]
  ELSE [dup |-> FALSE, names |-> Append(names, typeName)]

(***************************************************************************)
(* The field emitter.  A call returns the text, the values it leaves in    *)
(* *index and in pushBacks, and whether it panicked.                       *)
(***************************************************************************)
InvalidLine == [k |-> "invalid"]

Panicked(index, pb) ==
  [panic |-> TRUE, text |-> InvalidLine, index |-> index, pb |-> pb]

Returned(r, pb) ==
  [panic |-> FALSE, text |-> r.text, index |-> r.index, pb |-> pb]

UnionMemberType(value) ==
  IF value.Type = NONE THEN GetRefType(value) ELSE value.Type

UnionMemberName(unionName, type) ==
  toCamelCase(unionName) \o <<"_">> \o toCamelCase(type)

\* acc after one more field: its text is appended, its counter and queue
\* are carried on.
Collect(acc, r) ==
  Then(r, LAMBDA f : [panic |-> f.panic, lines |-> Append(acc.lines, f.text),
                      index |-> f.index, pb |-> f.pb])

NoFields(index, pb) ==
  [panic |-> FALSE, lines |-> <<>>, index |-> index, pb |-> pb]

\* The REF case once GetRef returned r.
RefField(r, propertyName, index, pb) ==
  Then(r, LAMBDA g :
    IF g.panic THEN Panicked(index, pb)
    ELSE Returned(ToRefProperty(propertyName, g.key, index),
                  nestedObjectHander(pb, propertyName, MapWork(g.ref))))

\* The ARRAY-REF case once GetRef returned r.
RefArrayField(r, propertyName, index, pb) ==
  Then(r, LAMBDA g :
    IF g.panic THEN Panicked(index, pb)
    ELSE Returned(ToRefArrayProperty(propertyName, g.key, index),
                  nestedObjectHander(pb, propertyName, MapWork(g.ref))))

\* UNION_TEMPLATE filled in with the member lines.
OneOf(unionName, m) ==
  Then(m, LAMBDA f :
    [panic |-> f.panic,
     text |-> [k |-> "oneof", name |-> toCamelCase(unionName),
               members |-> f.lines],
     index |-> f.index, pb |-> f.pb])

\* "\toptional " before the member's field.
Optional(r) == [r EXCEPT !.text = Prefixed("optional", @)]

RECURSIVE ToField(_, _, _, _, _)
RECURSIVE ToUnionProperty(_, _, _, _, _)
RECURSIVE UnionMembers(_, _, _, _, _)

ToField(root, properties, propertyName, index, pb) ==
  LET type == GetType(properties)
  IN  CASE type = PANIC -> Panicked(index, pb)
        [] type = PRIMITIVE_TYPE ->
             Returned(ToPrimitiveProperty(propertyName, properties.Type, index),
                      pb)
        [] type = REF_TYPE ->
             RefField(GetRef(properties, root), propertyName, index, pb)
        [] type = PRIMITIVE_ARRAY_TYPE ->
             Returned(ToPrimitiveArrayProperty(propertyName,
                        properties.Items[1].Type, index), pb)
        [] type = UNKOWN_ARRAY_TYPE ->
             Returned(ToRefArrayProperty(propertyName,
                        <<"g", "o", "o", "g", "l", "e", ".", "p", "r", "o",
                          "t", "o", "b", "u", "f", ".", "A", "n", "y">>,
                        index), pb)
        [] type = REF_ARRAY_TYPE ->
             RefArrayField(GetRef(properties.Items[1], root), propertyName,
                           index, pb)
        [] type = COMPLEX_ARRAY_TYPE ->
             \* break, then the closing return "--Invalid Type--"
             [panic |-> FALSE, text |-> InvalidLine, index |-> index,
              pb |-> pb]
        [] type = ENUM_TYPE ->
             Returned(ToRefProperty(propertyName, propertyName, index),
                      nestedObjectHander(pb, propertyName,
                                         EnumWork(properties.Enum[1])))
        [] type = NESTED_OBJECT_TYPE ->
             Returned(ToRefProperty(propertyName, propertyName, index),
                      nestedObjectHander(pb, propertyName,
                                         NodeWork(properties)))
        [] type = UNION_TYPE ->
             ToUnionProperty(root, propertyName, properties.AnyOf[1], index, pb)

\* The second loop of ToUnionProperty from member i on; acc is what the
\* members before i produced.
UnionMembers(root, unionName, unionValue, i, acc) ==
  IF i > Len(unionValue) \/ acc.panic THEN acc
  ELSE IF Len(UnionMemberType(unionValue[i])) = 0
    THEN [acc EXCEPT !.panic = TRUE]
  ELSE Then(Collect(acc,
              ToField(root, unionValue[i],
                      UnionMemberName(unionName,
                                      UnionMemberType(unionValue[i])),
                      acc.index, acc.pb)),
            LAMBDA next : UnionMembers(root, unionName, unionValue, i + 1,
                                       next))

ToUnionProperty(root, unionName, unionValue, index, pb) ==
  LET nulls == {i \in DOMAIN unionValue : unionValue[i].Type = NULL}
      others == DOMAIN unionValue \ nulls
      \* _value: the last member that is not null
      last == CHOOSE i \in others : \A j \in others : j <= i
  IN  IF Len(unionValue) = 2 /\ nulls # {} THEN
        \* isOptional
        IF others = {} THEN Panicked(index, pb)
        ELSE IF Len(UnionMemberType(unionValue[last])) = 0
          THEN Panicked(index, pb)
        ELSE Optional(
               ToField(root, unionValue[last],
                 UnionMemberName(unionName,
                                 UnionMemberType(unionValue[last])),
                 index, pb))
      ELSE OneOf(unionName,
                 UnionMembers(root, unionName, unionValue, 1,
                              NoFields(index, pb)))

(***************************************************************************)
(* The container emitters.  A block keeps, beside its name and its lines,  *)
(* the properties map or value list it was rendered from (src).            *)
(***************************************************************************)
EmptyFragment == [kind |-> "empty", name |-> <<>>, src |-> <<>>, body |-> <<>>]

\* The key slices sort.Slice can leave: every arrangement of the keys in
\* which no key is shorter than one before it.  The keys are appended in
\* the map's iteration order, which Go does not specify.
RECURSIVE SortedOrders(_)
SortedOrders(S) ==
  IF S = {} THEN {<<>>}
  ELSE UNION {{<<k>> \o rest : rest \in SortedOrders(S \ {k})} :
                k \in {k \in S : \A j \in S : Len(k) <= Len(j)}}

SortedKeys(m) == SortedOrders(DOMAIN m)

\* The field loop of ToMessage from key i of the sorted slice on.
RECURSIVE MessageFields(_, _, _, _, _)
MessageFields(root, properties, order, i, acc) ==
  IF i > Len(order) \/ acc.panic THEN acc
  ELSE Then(Collect(acc, ToField(root, properties[order[i]], order[i],
                                 acc.index, acc.pb)),
            LAMBDA next : MessageFields(root, properties, order, i + 1, next))

\* MESSAGE_TEMPLATE filled in with the lines of the field loop f.
MessageBlock(typeName, properties, f, names) ==
  Then(f, LAMBDA g :
    [panic |-> g.panic,
     text |-> [kind |-> "message", name |-> typeName, src |-> properties,
               body |-> g.lines],
     names |-> names, pb |-> g.pb])

\* order is the sorted key slice; names is typeNames.
ToMessage(root, messageName, properties, order, names, pb) ==
  IF duplicateCheck(names, toPascalCase(messageName)).dup
    THEN [panic |-> FALSE, text |-> EmptyFragment, names |-> names, pb |-> pb]
  ELSE MessageBlock(toPascalCase(messageName), properties,
                    MessageFields(root, properties, order, 1, NoFields(1, pb)),
                    duplicateCheck(names, toPascalCase(messageName)).names)

ToEnum(enumName, enumValue, names) ==
  LET name == toPascalCase(enumName)
      chk == duplicateCheck(names, name)
  IN  IF chk.dup THEN [text |-> EmptyFragment, names |-> chk.names]
      ELSE [text |-> [kind |-> "enum", name |-> name, src |-> enumValue,
                      body |-> [i \in DOMAIN enumValue |->
                                  [k |-> "member",
                                   name |-> ToUpper(name \o <<"_">>
                                              \o fixString(enumValue[i])),
                                   num |-> i - 1]]],
            names |-> chk.names]

(***************************************************************************)
(* Input schemas: what New decodes from the JSON document.                 *)
(***************************************************************************)
Prim(type) == [ZeroProperties EXCEPT !.Type = type]
Obj(props) == [ZeroProperties EXCEPT !.Type = OBJECT, !.Properties = props]
ArrayOf(items) == [ZeroProperties EXCEPT !.Type = ARRAY, !.Items = <<items>>]
EnumOf(vals) == [ZeroProperties EXCEPT !.Enum = <<vals>>]
AnyOf(members) == [ZeroProperties EXCEPT !.AnyOf = <<members>>]
RefStr(str) == [ZeroProperties EXCEPT !.Ref = <<str>>]
RefTo(target) ==
  RefStr(<<"#", "/", "d", "e", "f", "i", "n", "i", "t", "i", "o", "n", "s",
           "/">> \o target)

\* S1: one integer property whose name changes under snake case.
SchemaPrimitive ==
  <<"F", "o", "o">> :>
     Obj(<<"a", "g", "e", "Y", "e", "a", "r", "s">> :> Prim(INTEGER))

\* Definition P referenced by n fields f1 .. fn of definition Doc.
RefFields(n) == [name \in {<<"f", Digits[i + 1]>> : i \in 1..n} |->
                   RefTo(<<"P">>)]

SchemaRefs ==
  (<<"P">> :> Obj(<<"x">> :> Prim(TypesSTRING)))
  @@ (<<"D", "o", "c">> :> Obj(RefFields(MaxRefs)))

\* Two definitions that reference each other.
SchemaCycle ==
  (<<"A">> :> Obj(<<"b">> :> RefTo(<<"B">>)))
  @@ (<<"B">> :> Obj(<<"a">> :> RefTo(<<"A">>)))

\* A definition that references itself.
SchemaSelf ==
  <<"N", "o", "d", "e">> :>
     Obj(<<"n", "e", "x", "t">> :> RefTo(<<"N", "o", "d", "e">>))

\* Objects nested d deep under the properties n1, n2, ...
RECURSIVE Nested(_, _)
Nested(i, d) ==
  IF i > d THEN Obj(<<"x">> :> Prim(TypesSTRING))
  ELSE Obj(<<"n", Digits[i + 1]>> :> Nested(i + 1, d))

SchemaChain == <<"R">> :> Nested(1, MaxDepth)

\* S4, and an enum property.
SchemaEnum ==
  (<<"C", "o", "l", "o", "r">> :>
     EnumOf(<<(<<"r", "e", "d">>), (<<"g", "-", "b">>)>>))
  @@ (<<"M">> :> Obj(<<"m", "o", "d", "e">> :>
                       EnumOf(<<(<<"o", "n">>), (<<"o", "f", "f">>)>>)))

\* S2 and S3: a null union and a three-member union.
SchemaUnion ==
  (<<"U">> :> Obj(
     (<<"n", "a", "m", "e">> :> AnyOf(<<Prim(TypesSTRING), Prim(NULL)>>))
     @@ (<<"v", "a", "l">> :>
           AnyOf(<<Prim(INTEGER), Prim(TypesSTRING),
                   RefTo(<<"B", "a", "r">>)>>))))
  @@ (<<"B", "a", "r">> :> Obj(<<"x">> :> Prim(NUMBER)))

\* One property of each array kind between two primitive ones.
SchemaArrays ==
  (<<"P">> :> Obj(<<"x">> :> Prim(TypesSTRING)))
  @@ (<<"A", "r", "r">> :> Obj(
        (<<"a">> :> Prim(TypesBOOLEAN))
        @@ (<<"b", "b">> :> ArrayOf(Prim(TypesSTRING)))
        @@ (<<"c", "c", "c">> :> ArrayOf(Obj(<<"y">> :> Prim(INTEGER))))
        @@ (<<"d", "d", "d", "d">> :> ArrayOf(ZeroProperties))
        @@ (<<"e", "e", "e", "e", "e">> :> ArrayOf(RefTo(<<"P">>)))
        @@ (<<"f", "f", "f", "f", "f", "f">> :> Prim(INTEGER))))

\* "type": "array" with no "items".
SchemaNoItems ==
  <<"B", "a", "d">> :> Obj(<<"a">> :> Prim(ARRAY))

\* Two messages whose nested objects share the property name "info".
SchemaSameName ==
  (<<"A">> :> Obj(<<"i", "n", "f", "o">> :>
                    Obj(<<"x">> :> Prim(TypesSTRING))))
  @@ (<<"B", "b">> :> Obj(<<"i", "n", "f", "o">> :>
                            Obj(<<"y">> :> Prim(INTEGER))))

\* A nested object whose property name is the name of a definition.
SchemaShadow ==
  (<<"A", "d", "d", "r">> :> Obj(<<"z">> :> Prim(TypesSTRING)))
  @@ (<<"P">> :> Obj(<<"a", "d", "d", "r">> :>
                       Obj(<<"c">> :> Prim(TypesSTRING))))

\* References the resolver refuses.
SchemaHttp ==
  <<"H">> :> Obj(<<"r">> :> RefStr(<<"H", "t", "t", "p", ":", "/", "/", "x">>))

SchemaDefs ==
  <<"H">> :> Obj(<<"r">> :> RefStr(<<"#", "/", "$", "d", "e", "f", "s", "/",
                                     "x">>))

Schemas ==
  {SchemaPrimitive, SchemaRefs, SchemaCycle, SchemaSelf, SchemaChain,
   SchemaEnum, SchemaUnion, SchemaArrays, SchemaNoItems, SchemaSameName,
   SchemaShadow, SchemaHttp, SchemaDefs}

(***************************************************************************)
(* main and Parse.                                                         *)
(***************************************************************************)
PackageName == <<"t", "e", "s", "t">>

Header(packageName) ==
  [kind |-> "header", name |-> packageName, src |-> <<>>, body |-> <<>>]

\* The single string ToProtobuf returns: the blocks of all definitions.
DefinitionsFragment(blocks) ==
  [kind |-> "definitions", name |-> <<>>, src |-> <<>>, body |-> blocks]

\* The properties map a queued value is emitted over.
WorkProperties(work) ==
  IF work.tag = "map[string]Properties" THEN work.val
  ELSE IF work.tag = "Properties" THEN work.val.Properties
  ELSE <<>>

\* The three type assertions of the drain loop.
Dispatch(root, key, work, order, names, pb) ==
  IF work.tag = "[]string" THEN
    LET e == ToEnum(key, work.val, names)
    IN  [panic |-> FALSE, text |-> e.text, names |-> e.names, pb |-> pb]
  ELSE ToMessage(root, key, WorkProperties(work), order, names, pb)

\* The loop runs on although the queue is empty.
QueueNotEmptyOffByOne(pb) == Cardinality(DOMAIN pb) >= 0

\* len(rcvr.pushBacks) > 0
QueueNotEmpty(pb) == Cardinality(DOMAIN pb) > 0

\* delete(rcvr.pushBacks, key) for every key of the pass
DeleteKeys(pb, ks) == [k \in DOMAIN pb \ Range(ks) |-> pb[k]]

\* What main writes: the non-empty text of the fragments, in order.
Assemble(vals) ==
  LET NonEmpty(f) == f.kind # "empty"
      Trim(f) == IF f.kind = "definitions"
                   THEN [f EXCEPT !.body = SelectSeq(@, NonEmpty)]
                 ELSE f
  IN  [i \in DOMAIN SelectSeq(vals, NonEmpty) |->
         Trim(SelectSeq(vals, NonEmpty)[i])]

CallIdle ==
  /\ fpc = "idle"
  /\ fName = <<>>
  /\ fNode = ZeroProperties
  /\ fOut = InvalidLine

Init ==
  /\ schema \in Schemas
  /\ pc = "Parse"
  /\ run = 1
  /\ values = <<>>
  /\ buffer = <<>>
  /\ defKeys = <<>>
  /\ pushBacks = <<>>
  /\ typeNames = <<>>
  /\ keys = <<>>
  /\ snapshot = {}
  /\ protoFile = <<>>
  /\ CallIdle

\* Parse up to the key sort of ToProtobuf.
ParseBegin ==
  /\ pc = "Parse"
  /\ \E order \in SortedKeys(schema) : defKeys' = order
  /\ values' = <<Header(PackageName)>>
  /\ buffer' = <<>>
  /\ pc' = "ToProtobuf"
  /\ UNCHANGED <<schema, run, pushBacks, typeNames, keys, snapshot, protoFile>>
  /\ UNCHANGED callVars

\* The block r is written to the buffer, or the panic ends the program.
ToProtobufWrite(r) ==
  IF r.panic
    THEN /\ pc' = "panic"
         /\ UNCHANGED <<buffer, defKeys, pushBacks, typeNames>>
  ELSE /\ buffer' = Append(buffer, r.text)
       /\ defKeys' = Tail(defKeys)
       /\ pushBacks' = r.pb
       /\ typeNames' = r.names
       /\ pc' = pc

\* One turn of the definitions loop of ToProtobuf.
ToProtobufNext ==
  /\ pc = "ToProtobuf"
  /\ defKeys # <<>>
  /\ \E order \in SortedKeys(schema[Head(defKeys)].Properties) :
       IF GetType(schema[Head(defKeys)]) = PANIC
         THEN /\ pc' = "panic"
              /\ UNCHANGED <<buffer, defKeys, pushBacks, typeNames>>
       ELSE IF GetType(schema[Head(defKeys)]) = ENUM_TYPE
         THEN \E r \in {Dispatch(schema, Head(defKeys),
                                 EnumWork(schema[Head(defKeys)].Enum[1]),
                                 order, typeNames, pushBacks)} :
                ToProtobufWrite(r)
       ELSE \E r \in {ToMessage(schema, Head(defKeys),
                                schema[Head(defKeys)].Properties, order,
                                typeNames, pushBacks)} :
              ToProtobufWrite(r)
  /\ UNCHANGED <<schema, run, values, keys, snapshot, protoFile>>
  /\ UNCHANGED callVars

\* ToProtobuf returns its buffer and Parse appends it.
ToProtobufReturn ==
  /\ pc = "ToProtobuf"
  /\ defKeys = <<>>
  /\ values' = Append(values, DefinitionsFragment(buffer))
  /\ buffer' = <<>>
  /\ pc' = "loop"
  /\ UNCHANGED <<schema, run, defKeys, pushBacks, typeNames, keys, snapshot,
                 protoFile>>
  /\ UNCHANGED callVars

\* The drain loop's condition holds: a pass and its range begin.
PassBegin ==
  /\ pc = "loop"
  /\ QueueNotEmpty(pushBacks)
  /\ keys' = <<>>
  /\ snapshot' = DOMAIN pushBacks
  /\ pc' = "range"
  /\ UNCHANGED <<schema, run, values, buffer, defKeys, pushBacks, typeNames,
                 protoFile>>
  /\ UNCHANGED callVars

\* The fragment r of key is appended, or the panic ends the program.
RangeAppend(key, r) ==
  IF r.panic
    THEN /\ pc' = "panic"
         /\ UNCHANGED <<values, keys, pushBacks, typeNames>>
  ELSE /\ values' = Append(values, r.text)
       /\ keys' = Append(keys, key)
       /\ pushBacks' = r.pb
       /\ typeNames' = r.names
       /\ pc' = pc

\* One turn of the range over the live map.  The range yields an entry it
\* has not yielded yet; an entry created during the range may be yielded or
\* skipped.
RangeNext ==
  /\ pc = "range"
  /\ \E key \in DOMAIN pushBacks \ Range(keys) :
       \E order \in SortedKeys(WorkProperties(pushBacks[key])) :
         \E r \in {Dispatch(schema, key, pushBacks[key], order, typeNames,
                            pushBacks)} :
           RangeAppend(key, r)
  /\ UNCHANGED <<schema, run, buffer, defKeys, snapshot, protoFile>>
  /\ UNCHANGED callVars

\* The range ends once every entry the map held at its start was yielded;
\* the keys of the pass are deleted.
RangeEnd ==
  /\ pc = "range"
  /\ snapshot \subseteq Range(keys)
  /\ pushBacks' = DeleteKeys(pushBacks, keys)
  /\ pc' = "loop"
  /\ UNCHANGED <<schema, run, values, buffer, defKeys, typeNames, keys,
                 snapshot, protoFile>>
  /\ UNCHANGED callVars

\* The drain loop's condition fails: Parse returns values.
ParseReturn ==
  /\ pc = "loop"
  /\ ~QueueNotEmpty(pushBacks)
  /\ pc' = "done"
  /\ UNCHANGED <<schema, run, values, buffer, defKeys, pushBacks, typeNames,
                 keys, snapshot, protoFile>>
  /\ UNCHANGED callVars

\* test.proto is there once a run has written it: every run writes the
\* header at least.
FileExists == protoFile # <<>>

\* main writes test.proto and exits.  os.WriteFile is called with permission
\* bits 0 and its error is dropped: the file a run creates has mode 0000, so
\* a later run either opens and replaces it (a privileged user) or fails to
\* open it and leaves the text of the earlier run.
MainWrite ==
  /\ pc = "done"
  /\ \/ protoFile' = Assemble(values)
     \/ /\ FileExists
        /\ protoFile' = protoFile
  /\ pc' = "exit"
  /\ UNCHANGED <<schema, run, values, buffer, defKeys, pushBacks, typeNames,
                 keys, snapshot>>
  /\ UNCHANGED callVars

\* main is run again on the same test.json: New builds a fresh parser.
MainAgain ==
  /\ pc = "exit"
  /\ run < MaxRuns
  /\ run' = run + 1
  /\ pc' = "Parse"
  /\ values' = <<>>
  /\ buffer' = <<>>
  /\ defKeys' = <<>>
  /\ pushBacks' = <<>>
  /\ typeNames' = <<>>
  /\ keys' = <<>>
  /\ snapshot' = {}
  /\ UNCHANGED <<schema, protoFile>>
  /\ UNCHANGED callVars

Next ==
  \/ ParseBegin
  \/ ToProtobufNext
  \/ ToProtobufReturn
  \/ PassBegin
  \/ RangeNext
  \/ RangeEnd
  \/ ParseReturn
  \/ MainWrite
  \/ MainAgain

Spec == Init /\ [][Next]_vars

\* Parse is one synchronous call: a step that can be taken is taken.
FairSpec == Spec /\ WF_vars(Next)

(***************************************************************************)
(* Single calls of the field formatters on a property name, and of GetType *)
(* and ToField on a property node, with the parser left alone.             *)
(***************************************************************************)
ParseIdle ==
  /\ schema = <<>>
  /\ pc = "idle"
  /\ run = 1
  /\ values = <<>>
  /\ buffer = <<>>
  /\ defKeys = <<>>
  /\ pushBacks = <<>>
  /\ typeNames = <<>>
  /\ keys = <<>>
  /\ snapshot = {}
  /\ protoFile = <<>>

NameAlphabet == {"a", "B", "1", "_", "-"}

HelloWorld == <<"h", "e", "l", "l", "o", "W", "o", "r", "l", "d">>

\* Every name of at most MaxNameLen characters, and helloWorld.
Names ==
  UNION {[1..n -> NameAlphabet] : n \in 0..MaxNameLen} \cup {HelloWorld}

NamesInit ==
  /\ ParseIdle
  /\ fpc = "call"
  /\ fName \in Names
  /\ fNode = ZeroProperties
  /\ fOut = InvalidLine

CallToPrimitiveProperty ==
  /\ fpc = "call"
  /\ \E type \in {TypesSTRING, INTEGER, NULL} :
       fOut' = ToPrimitiveProperty(fName, type, 1).text
  /\ fpc' = "returned"
  /\ UNCHANGED <<fName, fNode>>
  /\ UNCHANGED parseVars

CallToPrimitiveArrayProperty ==
  /\ fpc = "call"
  /\ fOut' = ToPrimitiveArrayProperty(fName, NUMBER, 1).text
  /\ fpc' = "returned"
  /\ UNCHANGED <<fName, fNode>>
  /\ UNCHANGED parseVars

CallToRefProperty ==
  /\ fpc = "call"
  /\ fOut' = ToRefProperty(fName, <<"P">>, 1).text
  /\ fpc' = "returned"
  /\ UNCHANGED <<fName, fNode>>
  /\ UNCHANGED parseVars

CallToRefArrayProperty ==
  /\ fpc = "call"
  /\ fOut' = ToRefArrayProperty(fName, <<"P">>, 1).text
  /\ fpc' = "returned"
  /\ UNCHANGED <<fName, fNode>>
  /\ UNCHANGED parseVars

NamesNext ==
  \/ CallToPrimitiveProperty
  \/ CallToPrimitiveArrayProperty
  \/ CallToRefProperty
  \/ CallToRefArrayProperty

NamesSpec == NamesInit /\ [][NamesNext]_vars

\* The nodes that differ in what GetType reads: type, enum, anyOf, items
\* (absent, or with its own type and $ref) and $ref, present or absent.
ItemsNodes ==
  {[ZeroProperties EXCEPT !.Type = t, !.Ref = r] :
     t \in {NONE, OBJECT, TypesSTRING},
     r \in {<<>>, RefTo(<<"P">>).Ref}}

FieldNodes ==
  {[ZeroProperties EXCEPT !.Type = t, !.Enum = e, !.AnyOf = u, !.Items = i,
                          !.Ref = r] :
     t \in {NONE, ARRAY, OBJECT, TypesSTRING, NULL},
     e \in {<<>>, <<(<<(<<"o", "n">>)>>)>>},
     u \in {<<>>, <<(<<Prim(TypesSTRING), Prim(NULL)>>)>>},
     i \in {<<>>} \cup {<<n>> : n \in ItemsNodes},
     r \in {<<>>, RefTo(<<"P">>).Ref}}

FieldRoot == <<"P">> :> Obj(<<"x">> :> Prim(TypesSTRING))

FieldInit ==
  /\ ParseIdle
  /\ fpc = "call"
  /\ fName = <<"p">>
  /\ fNode \in FieldNodes
  /\ fOut = InvalidLine

CallGetType ==
  /\ fpc = "call"
  /\ fOut' = GetType(fNode)
  /\ fpc' = "classified"
  /\ UNCHANGED <<fName, fNode>>
  /\ UNCHANGED parseVars

\* ToField with *index = index and an empty queue.
CallToField ==
  /\ fpc = "call"
  /\ \E index \in 1..2 :
       fOut' = [index |-> index,
                ret |-> ToField(FieldRoot, fNode, fName, index, <<>>)]
  /\ fpc' = "emitted"
  /\ UNCHANGED <<fName, fNode>>
  /\ UNCHANGED parseVars

FieldNext ==
  \/ CallGetType
  \/ CallToField

FieldSpec == FieldInit /\ [][FieldNext]_vars

(***************************************************************************)
(* Reading the output.                                                     *)
(***************************************************************************)
\* The fragments with the definitions fragment replaced by its blocks.
RECURSIVE Flatten(_)
Flatten(vals) ==
  IF vals = <<>> THEN <<>>
  ELSE (IF Head(vals).kind = "definitions" THEN Head(vals).body
        ELSE <<Head(vals)>>) \o Flatten(Tail(vals))

IsBlock(f) == f.kind \in {"message", "enum"}

\* Every message and enum block written so far, in the order written.
Blocks ==
  SelectSeq(Flatten(values) \o buffer, IsBlock)

MessageBlocks == {Blocks[i] : i \in {j \in DOMAIN Blocks :
                                       Blocks[j].kind = "message"}}

\* The field numbers of a sequence of lines in the order they are written.
RECURSIVE NumbersOf(_)
NumbersOf(lines) ==
  IF lines = <<>> THEN <<>>
  ELSE (CASE Head(lines).k = "field" -> <<Head(lines).num>>
          [] Head(lines).k = "oneof" -> NumbersOf(Head(lines).members)
          [] Head(lines).k = "prefixed" -> NumbersOf(<<Head(lines).inner>>)
          [] OTHER -> <<>>)
       \o NumbersOf(Tail(lines))

\* What the fields rendered from a list of (name, node) pairs use as their
\* types: the type name, the kind of block that must define it and the
\* node content that block has to be rendered from.  Union members are
\* listed under the names ToUnionProperty gives them.
RECURSIVE UsesOf(_)
UsesOf(items) ==
  IF items = <<>> THEN {}
  ELSE LET name == Head(items).name
           node == Head(items).node
           type == GetType(node)
       IN  CASE type = REF_TYPE ->
                  {[type |-> toPascalCase(GetRefType(node)), kind |-> "message",
                    src |-> GetRef(node, schema).ref, ref |-> TRUE]}
                  \cup UsesOf(Tail(items))
             [] type = REF_ARRAY_TYPE ->
                  {[type |-> toPascalCase(GetRefType(node.Items[1])),
                    kind |-> "message",
                    src |-> GetRef(node.Items[1], schema).ref, ref |-> TRUE]}
                  \cup UsesOf(Tail(items))
             [] type = ENUM_TYPE ->
                  {[type |-> toPascalCase(name), kind |-> "enum",
                    src |-> node.Enum[1], ref |-> FALSE]}
                  \cup UsesOf(Tail(items))
             [] type = NESTED_OBJECT_TYPE ->
                  {[type |-> toPascalCase(name), kind |-> "message",
                    src |-> node.Properties, ref |-> FALSE]}
                  \cup UsesOf(Tail(items))
             [] type = UNION_TYPE ->
                  UsesOf([i \in DOMAIN node.AnyOf[1] |->
                            [name |-> UnionMemberName(name,
                                        UnionMemberType(node.AnyOf[1][i])),
                             node |-> node.AnyOf[1][i]]]
                         \o Tail(items))
             [] OTHER -> UsesOf(Tail(items))

\* The types the fields of message block b use.
Uses(b) ==
  LET order == CHOOSE o \in SortedKeys(b.src) : TRUE
  IN  UsesOf([i \in DOMAIN order |->
                [name |-> order[i], node |-> b.src[order[i]]]])

\* The blocks of kind and name, and those rendered from src.
Named(kind, name) ==
  {i \in DOMAIN Blocks : Blocks[i].kind = kind /\ Blocks[i].name = name}

BuiltFrom(kind, src) ==
  {i \in DOMAIN Blocks : Blocks[i].kind = kind /\ Blocks[i].src = src}

(***************************************************************************)
(* C1: at every point of Parse, and so after it returns, no type name is   *)
(* the name of two emitted message or enum blocks, every emitted name is   *)
(* recorded in the dedup list, and the list holds no name twice.           *)
(***************************************************************************)
C1_UniqueTypeNames ==
  /\ \A i, j \in DOMAIN Blocks : i # j => Blocks[i].name # Blocks[j].name
  /\ \A i \in DOMAIN Blocks : Blocks[i].name \in Range(typeNames)
  /\ \A i, j \in DOMAIN typeNames : i # j => typeNames[i] # typeNames[j]

\* Parse returned after a queued name met the dedup list: its fragment is
\* empty although blocks were emitted.
C1_Witness ==
  /\ pc = "done"
  /\ Len(Blocks) >= 2
  /\ \E i \in DOMAIN values : values[i].kind = "empty"

(***************************************************************************)
(* C2: in every emitted message block the field numbers, read in the order *)
(* the lines are written (union members included), are 1, 2, ..., N.       *)
(***************************************************************************)
C2_FieldNumbersDense ==
  \A b \in MessageBlocks :
    NumbersOf(b.body) = [i \in 1..Len(NumbersOf(b.body)) |-> i]

\* Parse returned with a message that holds a oneof, an optional null-union
\* and four numbered fields.
C2_Witness ==
  /\ pc = "done"
  /\ \E b \in MessageBlocks :
       /\ Len(NumbersOf(b.body)) >= 4
       /\ \E i \in DOMAIN b.body : b.body[i].k = "oneof"
       /\ \E i \in DOMAIN b.body :
            b.body[i].k = "field" /\ "optional" \in Range(b.body[i].label)

(***************************************************************************)
(* C3 as claimed: after Parse returns, every $ref target reached through a *)
(* REF field, an ARRAY-REF field or a union member has exactly one emitted *)
(* block rendered from it.                                                 *)
(***************************************************************************)
C3_OneDefinitionPerTarget ==
  pc = "done" =>
    \A b \in MessageBlocks :
      \A u \in Uses(b) :
        u.ref => Cardinality(BuiltFrom(u.kind, u.src)) = 1

(***************************************************************************)
(* C4 as claimed: a second run of main on the same schema writes the       *)
(* definitions, and numbers their properties, exactly as the first run did.*)
(***************************************************************************)
C4_SameOrderEveryRun ==
  (pc = "done" /\ run > 1) => Assemble(values)[2] = protoFile[2]

(***************************************************************************)
(* C8 as claimed: when a pass of the drain loop ends, the keys dispatched  *)
(* in it are exactly the keys the queue held when the pass began, and the  *)
(* removal takes exactly those keys out, so a key enqueued during the pass *)
(* is still queued for the next pass.                                      *)
(***************************************************************************)
C8_PassDispatchesSnapshot ==
  [][(pc = "range" /\ pc' = "loop") =>
       /\ Range(keys) = snapshot
       /\ DOMAIN pushBacks' = DOMAIN pushBacks \ snapshot]_vars

(***************************************************************************)
(* C9: Parse terminates: every run that begins reaches the return of Parse *)
(* or a fatal condition.                                                   *)
(***************************************************************************)
C9_ParseTerminates == (pc = "Parse") ~> (pc \in {"done", "panic"})

\* Parse returned for a schema whose references are cyclic, after a pass
\* that met an already recorded name.
C9_Witness ==
  /\ pc = "done"
  /\ schema \in {SchemaCycle, SchemaSelf}
  /\ Len(values) > 2

(***************************************************************************)
(* C10 as claimed: after Parse returns, every message or enum type name    *)
(* used as the type of an emitted field names an emitted block of that     *)
(* kind rendered from the field's own node or reference target.            *)
(***************************************************************************)
C10_FieldTypeIsOwnBlock ==
  pc = "done" =>
    \A b \in MessageBlocks :
      \A u \in Uses(b) :
        \E i \in Named(u.kind, u.type) : Blocks[i].src = u.src

(***************************************************************************)
(* C5 as claimed: a field formatter writes a json_name option only when    *)
(* toSnakeCase returns a string that differs from the sanitized name.      *)
(***************************************************************************)
C5_JsonNameOnlyWhenChanged ==
  (fpc = "returned" /\ fOut.json # <<>>) =>
    toSnakeCase(fName).str # fixString(fName)

(***************************************************************************)
(* C5 as amended: a field formatter writes a json_name option only when    *)
(* toSnakeCase returns a string that differs from the sanitized name or    *)
(* the sanitized name holds an underscore; the option carries the          *)
(* snake-case name; the name a gets none, and helloWorld and a1 get        *)
(* hello_world and a_1.                                                    *)
(***************************************************************************)
C5_JsonNameWhenChangedOrUnderscore ==
  fpc = "returned" =>
    /\ fOut.json # <<>> =>
         /\ \/ toSnakeCase(fName).str # fixString(fName)
            \/ "_" \in Range(fixString(fName))
         /\ fOut.json = <<toSnakeCase(fName).str>>
    /\ fName = <<"a">> => fOut.json = <<>>
    /\ fName = <<"a", "1">> => fOut.json = <<(<<"a", "_", "1">>)>>
    /\ fName = HelloWorld =>
         fOut.json = <<(<<"h", "e", "l", "l", "o", "_", "w", "o", "r", "l",
                          "d">>)>>

\* A formatter returned a line for a name that holds an underscore and
\* that snake case leaves as it is: the line carries the option.
C5_Witness ==
  /\ fpc = "returned"
  /\ fOut.json # <<>>
  /\ toSnakeCase(fName).str = fixString(fName)

(***************************************************************************)
(* C6 as claimed: GetType returns one of the nine kinds for every property *)
(* node, the node with type array and no items included.                   *)
(***************************************************************************)
C6_GetTypeTotal == fpc = "classified" => fOut \in PropertyType

(***************************************************************************)
(* C7 as claimed: for an ARRAY-COMPLEX node ToField returns no text,       *)
(* enqueues nothing and leaves the counter as it was.                      *)
(***************************************************************************)
C7_ComplexArraySkipped ==
  (fpc = "emitted" /\ GetType(fNode) = COMPLEX_ARRAY_TYPE) =>
    /\ fOut.ret.text.k \notin {"field", "oneof", "prefixed", "invalid"}
    /\ fOut.ret.pb = <<>>
    /\ fOut.ret.index = fOut.index

====
